---- MODULE Spec2Model ----
(***************************************************************************)
(* Model of src/src/data_collection.py: the three cursor paginators        *)
(*   fetch_local_statuses_in_date_range  (variant "stream")                *)
(*   fetch_fixed_per_day                 (variant "perday")                *)
(*   fetch_followers_for_account         (variant "followers")             *)
(* One run of one paginator against one finite feed.  Timestamps are       *)
(* integers, a calendar day is DayLen consecutive instants.  The output    *)
(* file is the sequence of to_csv calls made on it, each with its header   *)
(* flag and its rows.                                                      *)
(***************************************************************************)
EXTENDS Integers, Sequences, FiniteSets

VARIABLES variant, feed, since, until, page_size, flush_every, per_day,
          pc, max_id, batch, idx, buffer, first_write, output,
          needed_dates, reservoirs, all_followers, requests, warned, accepted,
          visited

vars == <<variant, feed, since, until, page_size, flush_every, per_day,
          pc, max_id, batch, idx, buffer, first_write, output,
          needed_dates, reservoirs, all_followers, requests, warned,
          accepted, visited>>

params == <<variant, feed, since, until, page_size, flush_every, per_day>>

(* ------------------------------ bounds --------------------------------- *)
MaxLen == 3
MaxId == 3
MaxTs == 2
DayLen == 2
MaxPage == 2
MaxFlush == 2
MaxPerDay == 2

(* max_id = None *)
NoCursor == -1

Ids == 1..MaxId
Times == 0..MaxTs
Status == [id : Ids, created_at : Times]
Dates == 0..(MaxTs \div DayLen)

Feeds == UNION {[1..n -> Status] : n \in 0..MaxLen}

(* --------------------------- pure helpers ------------------------------ *)
Min(a, b) == IF a <= b THEN a ELSE b

(* datetime.date() *)
DateOf(ts) == ts \div DayLen

(* { start_date + timedelta(days=i) for i in range(num_days) } *)
NeededDates(s, u) == {d \in Dates : DateOf(s) <= d /\ d <= DateOf(u)}

(* the server side of client.timeline_public(limit=, max_id=): the newest  *)
(* `limit` statuses of the feed whose id is <= max_id (all, when unset)    *)
Visible(f, cursor) ==
    SelectSeq(f, LAMBDA st : cursor = NoCursor \/ st.id <= cursor)

timeline_public(f, limit, cursor) ==
    SubSeq(Visible(f, cursor), 1, Min(limit, Len(Visible(f, cursor))))

(* client.account_followers(account_id, limit=, max_id=) *)
account_followers(f, limit, cursor) ==
    SubSeq(Visible(f, cursor), 1, Min(limit, Len(Visible(f, cursor))))

(* variants of the window test: upper edge excluded; upper edge not tested *)
InWindow_strict(ts) == since <= ts /\ ts < until

InWindow_noUpper(ts) == since <= ts

(* since <= ts <= until *)
InWindow(ts) == since <= ts /\ ts <= until

(* rec = {"id": ..., "created_at": ts, ...} *)
Rec(st) == [id |-> st.id, created_at |-> st.created_at]

(* pd.DataFrame(rows).to_csv(out_path, mode="a", header=h, index=False) *)
to_csv(out, rows, h) == Append(out, [header |-> h, rows |-> rows])

(* variant of the cursor step: taken from the first status of the page *)
NextCursor_first(b) == b[1].id - 1

(* variant of the cursor step: the last id itself, not one below it *)
NextCursor_noDecrement(b) == b[Len(b)].id

(* last_id = int(batch[-1]["id"]); max_id = str(last_id - 1) *)
NextCursor(b) == b[Len(b)].id - 1

(* ------------------------------- Init ---------------------------------- *)
Init ==
    /\ variant \in {"stream", "perday", "followers"}
    /\ feed \in Feeds
    /\ page_size \in 1..MaxPage
    /\ IF variant = "followers"
         THEN since = 0 /\ until = 0
         ELSE since \in Times /\ until \in Times /\ since <= until
    /\ IF variant = "stream" THEN flush_every \in 1..MaxFlush ELSE flush_every = 1
    /\ IF variant = "perday" THEN per_day \in 1..MaxPerDay ELSE per_day = 1
    /\ pc = "fetch"
    /\ max_id = NoCursor
    /\ batch = <<>>
    /\ idx = 0
    /\ buffer = <<>>
    /\ first_write = TRUE
    /\ output = <<>>
    /\ needed_dates = IF variant = "perday" THEN NeededDates(since, until) ELSE {}
    /\ reservoirs = [d \in Dates |-> <<>>]
    /\ all_followers = <<>>
    /\ requests = <<>>
    /\ warned = FALSE
    /\ accepted = <<>>
    /\ visited = <<>>

(* variant of the early-stop test: any status outside the window stops *)
PastWindow_orAbove(ts) == ts < since \/ ts > until

(* variant of the early-stop test: the comparison is turned round *)
PastWindow_reversed(ts) == ts > since

(* variant of the early-stop test: the lower edge itself stops the walk *)
PastWindow_inclusive(ts) == ts <= since

(* if ts < since *)
PastWindow(ts) == ts < since

(* variant of the threshold test: flush only above the threshold *)
FlushDue_above(buf) == Len(buf) > flush_every

(* if len(buffer) >= flush_every *)
FlushDue(buf) == Len(buf) >= flush_every

(* variant of the quota test: the comparison is <= *)
BucketFull_atMost(r) == Len(r) <= per_day

(* variant of the quota test: flush only above the quota *)
BucketFull_above(r) == Len(r) > per_day

(* if len(reservoirs[d]) == per_day *)
BucketFull(r) == Len(r) = per_day

(* variant of the threshold flush: buffer.clear() is left out *)
FlushBuffer_noClear(out, buf, fw) ==
    [output |-> to_csv(out, buf, fw), first_write |-> FALSE, buffer |-> buf]

(* variant of the threshold flush: first_write is left as it was *)
FlushBuffer_keepHeader(out, buf, fw) ==
    [output |-> to_csv(out, buf, fw), first_write |-> fw, buffer |-> <<>>]

(* the threshold flush: to_csv(header=first_write); first_write = False;   *)
(* buffer.clear()                                                          *)
FlushBuffer(out, buf, fw) ==
    [output |-> to_csv(out, buf, fw), first_write |-> FALSE, buffer |-> <<>>]

(* variant of the accumulation: the list is replaced by the page *)
extend_replace(lst, b) == b

(* all_followers.extend(batch) *)
extend(lst, b) == lst \o b

(* the status the for loop is looking at *)
Cur == batch[idx]

(* ------------------ fetch_local_statuses_in_date_range ----------------- *)
(* batch = client.timeline_public(...); if not batch: break *)
FetchStream ==
    /\ variant = "stream" /\ pc = "fetch"
    /\ batch' = timeline_public(feed, page_size, max_id)
    /\ requests' = Append(requests, max_id)
    /\ IF batch' = <<>>
         THEN pc' = "final" /\ idx' = 0
         ELSE pc' = "scan" /\ idx' = 1
    /\ UNCHANGED <<params, accepted, visited, max_id, buffer, first_write, output,
                   needed_dates, reservoirs, all_followers, warned>>

(* variant of the early stop: return without writing the buffer *)
StopStream_noFlush ==
    /\ variant = "stream" /\ pc = "scan" /\ idx <= Len(batch)
    /\ PastWindow(Cur.created_at)
    /\ pc' = "done"
    /\ visited' = Append(visited, Cur)
    /\ UNCHANGED <<params, accepted, max_id, batch, idx, buffer, first_write,
                   output, needed_dates, reservoirs, all_followers, requests,
                   warned>>

(* if ts < since: flush the buffer if any, return *)
StopStream ==
    /\ variant = "stream" /\ pc = "scan" /\ idx <= Len(batch)
    /\ PastWindow(Cur.created_at)
    /\ output' = IF buffer # <<>> THEN to_csv(output, buffer, first_write)
                                  ELSE output
    /\ pc' = "done"
    /\ visited' = Append(visited, Cur)
    /\ UNCHANGED <<params, accepted, max_id, batch, idx, buffer, first_write,
                   needed_dates, reservoirs, all_followers, requests, warned>>

(* if since <= ts <= until: buffer.append(rec) *)
AcceptStream ==
    /\ variant = "stream" /\ pc = "scan" /\ idx <= Len(batch)
    /\ ~PastWindow(Cur.created_at)
    /\ InWindow(Cur.created_at)
    /\ buffer' = Append(buffer, Rec(Cur))
    /\ accepted' = Append(accepted, Rec(Cur))
    /\ pc' = "flushchk"
    /\ visited' = Append(visited, Cur)
    /\ UNCHANGED <<params, max_id, batch, idx, first_write, output,
                   needed_dates, reservoirs, all_followers, requests, warned>>

(* neither test holds (ts > until): on to the next status *)
SkipStream ==
    /\ variant = "stream" /\ pc = "scan" /\ idx <= Len(batch)
    /\ ~PastWindow(Cur.created_at)
    /\ ~InWindow(Cur.created_at)
    /\ idx' = idx + 1
    /\ visited' = Append(visited, Cur)
    /\ UNCHANGED <<params, accepted, pc, max_id, batch, buffer, first_write, output,
                   needed_dates, reservoirs, all_followers, requests, warned>>

(* if len(buffer) >= flush_every: to_csv, first_write = False, clear *)
ThresholdFlushStream ==
    /\ variant = "stream" /\ pc = "flushchk"
    /\ IF FlushDue(buffer)
         THEN /\ output' = FlushBuffer(output, buffer, first_write).output
              /\ first_write' = FlushBuffer(output, buffer, first_write).first_write
              /\ buffer' = FlushBuffer(output, buffer, first_write).buffer
         ELSE UNCHANGED <<output, first_write, buffer>>
    /\ idx' = idx + 1
    /\ pc' = "scan"
    /\ UNCHANGED <<params, accepted, visited, max_id, batch,
                   needed_dates, reservoirs, all_followers, requests, warned>>

(* page backward: max_id = str(int(batch[-1]["id"]) - 1) *)
PageBackStream ==
    /\ variant = "stream" /\ pc = "scan" /\ idx > Len(batch)
    /\ max_id' = NextCursor(batch)
    /\ pc' = "fetch"
    /\ UNCHANGED <<params, accepted, visited, batch, idx, buffer, first_write, output,
                   needed_dates, reservoirs, all_followers, requests, warned>>

(* variant of the final flush: written without the `if buffer` test *)
FinalFlushStream_always ==
    /\ variant = "stream" /\ pc = "final"
    /\ output' = to_csv(output, buffer, first_write)
    /\ pc' = "done"
    /\ UNCHANGED <<params, accepted, visited, max_id, batch, idx, buffer,
                   first_write, needed_dates, reservoirs, all_followers,
                   requests, warned>>

(* final flush, after the break on an empty page *)
FinalFlushStream ==
    /\ variant = "stream" /\ pc = "final"
    /\ output' = IF buffer # <<>> THEN to_csv(output, buffer, first_write)
                                  ELSE output
    /\ pc' = "done"
    /\ UNCHANGED <<params, accepted, visited, max_id, batch, idx, buffer, first_write,
                   needed_dates, reservoirs, all_followers, requests, warned>>

(* -------------------------- fetch_fixed_per_day ------------------------ *)
(* while needed_dates: batch = ...; if not batch: warning, break *)
FetchPerDay ==
    /\ variant = "perday" /\ pc = "fetch"
    /\ batch' = timeline_public(feed, page_size, max_id)
    /\ requests' = Append(requests, max_id)
    /\ IF batch' = <<>>
         THEN pc' = "done" /\ idx' = 0 /\ warned' = TRUE
         ELSE pc' = "scan" /\ idx' = 1 /\ UNCHANGED warned
    /\ UNCHANGED <<params, accepted, visited, max_id, buffer, first_write, output,
                   needed_dates, reservoirs, all_followers>>

(* variant of the early stop: the warning is logged there too *)
StopPerDay_warns ==
    /\ variant = "perday" /\ pc = "scan" /\ idx <= Len(batch)
    /\ PastWindow(Cur.created_at)
    /\ needed_dates' = {}
    /\ warned' = TRUE
    /\ pc' = "done"
    /\ visited' = Append(visited, Cur)
    /\ UNCHANGED <<params, accepted, max_id, batch, idx, buffer, first_write,
                   output, reservoirs, all_followers, requests>>

(* if ts < since: needed_dates.clear(); break; then `if not needed_dates: break` *)
StopPerDay ==
    /\ variant = "perday" /\ pc = "scan" /\ idx <= Len(batch)
    /\ PastWindow(Cur.created_at)
    /\ needed_dates' = {}
    /\ pc' = "done"
    /\ visited' = Append(visited, Cur)
    /\ UNCHANGED <<params, accepted, max_id, batch, idx, buffer, first_write, output,
                   reservoirs, all_followers, requests, warned>>

(* if d not in needed_dates: continue *)
SkipPerDay ==
    /\ variant = "perday" /\ pc = "scan" /\ idx <= Len(batch)
    /\ ~PastWindow(Cur.created_at)
    /\ DateOf(Cur.created_at) \notin needed_dates
    /\ idx' = idx + 1
    /\ visited' = Append(visited, Cur)
    /\ UNCHANGED <<params, accepted, pc, max_id, batch, buffer, first_write, output,
                   needed_dates, reservoirs, all_followers, requests, warned>>

(* reservoirs[d].append(rec) *)
AcceptPerDay ==
    /\ variant = "perday" /\ pc = "scan" /\ idx <= Len(batch)
    /\ ~PastWindow(Cur.created_at)
    /\ DateOf(Cur.created_at) \in needed_dates
    /\ reservoirs' = [reservoirs EXCEPT ![DateOf(Cur.created_at)] =
                                          Append(@, Rec(Cur))]
    /\ accepted' = Append(accepted, Rec(Cur))
    /\ pc' = "flushchk"
    /\ visited' = Append(visited, Cur)
    /\ UNCHANGED <<params, max_id, batch, idx, buffer, first_write, output,
                   needed_dates, all_followers, requests, warned>>

(* variant of the bucket flush: needed_dates.remove(d) is left out *)
BucketFlushPerDay_keepDate ==
    /\ variant = "perday" /\ pc = "flushchk"
    /\ LET d == DateOf(Cur.created_at) IN
         IF BucketFull(reservoirs[d])
           THEN /\ output' = to_csv(output, reservoirs[d], first_write)
                /\ first_write' = FALSE
                /\ reservoirs' = [reservoirs EXCEPT ![d] = <<>>]
           ELSE UNCHANGED <<output, first_write, reservoirs>>
    /\ idx' = idx + 1
    /\ pc' = "scan"
    /\ UNCHANGED <<params, accepted, visited, max_id, batch, buffer,
                   all_followers, requests, warned, needed_dates>>

(* if len(reservoirs[d]) == per_day: to_csv, first_write = False,          *)
(* del reservoirs[d], needed_dates.remove(d)                               *)
BucketFlushPerDay ==
    /\ variant = "perday" /\ pc = "flushchk"
    /\ LET d == DateOf(Cur.created_at) IN
         IF BucketFull(reservoirs[d])
           THEN /\ output' = to_csv(output, reservoirs[d], first_write)
                /\ first_write' = FALSE
                /\ reservoirs' = [reservoirs EXCEPT ![d] = <<>>]
                /\ needed_dates' = needed_dates \ {d}
           ELSE UNCHANGED <<output, first_write, reservoirs, needed_dates>>
    /\ idx' = idx + 1
    /\ pc' = "scan"
    /\ UNCHANGED <<params, accepted, visited, max_id, batch, buffer, all_followers, requests,
                   warned>>

(* prepare next page: if not needed_dates or not batch: break; else cursor *)
PageBackPerDay ==
    /\ variant = "perday" /\ pc = "scan" /\ idx > Len(batch)
    /\ IF needed_dates = {}
         THEN pc' = "done" /\ UNCHANGED max_id
         ELSE pc' = "fetch" /\ max_id' = NextCursor(batch)
    /\ UNCHANGED <<params, accepted, visited, batch, idx, buffer, first_write, output,
                   needed_dates, reservoirs, all_followers, requests, warned>>

(* ---------------------- fetch_followers_for_account -------------------- *)
(* batch = client.account_followers(...); if not batch: break;             *)
(* all_followers.extend(batch); max_id = batch[-1]["id"] - 1               *)
FetchFollowers ==
    /\ variant = "followers" /\ pc = "fetch"
    /\ batch' = account_followers(feed, page_size, max_id)
    /\ requests' = Append(requests, max_id)
    /\ IF batch' = <<>>
         THEN pc' = "final" /\ UNCHANGED <<all_followers, max_id>>
         ELSE /\ pc' = "fetch"
              /\ all_followers' = extend(all_followers, batch')
              /\ max_id' = NextCursor(batch')
    /\ visited' = visited \o batch'
    /\ UNCHANGED <<params, accepted, idx, buffer, first_write, output,
                   needed_dates, reservoirs, warned>>

(* df = pd.json_normalize(all_followers); df.to_csv(out_path, index=False) *)
WriteFollowers ==
    /\ variant = "followers" /\ pc = "final"
    /\ output' = to_csv(output, all_followers, TRUE)
    /\ pc' = "done"
    /\ UNCHANGED <<params, accepted, visited, max_id, batch, idx, buffer, first_write,
                   needed_dates, reservoirs, all_followers, requests, warned>>

(* ------------------------------ failure -------------------------------- *)
(* variant of the failure: the buffer is written on the way out *)
FetchFails_flush ==
    /\ pc = "fetch"
    /\ requests' = Append(requests, max_id)
    /\ output' = to_csv(output, buffer, first_write)
    /\ pc' = "failed"
    /\ UNCHANGED <<params, accepted, visited, max_id, batch, idx, buffer,
                   first_write, needed_dates, reservoirs, all_followers,
                   warned>>

(* the fetch call raises; no paginator catches it, the run is aborted *)
FetchFails ==
    /\ pc = "fetch"
    /\ requests' = Append(requests, max_id)
    /\ pc' = "failed"
    /\ UNCHANGED <<params, accepted, visited, max_id, batch, idx, buffer, first_write, output,
                   needed_dates, reservoirs, all_followers, warned>>

Next ==
    \/ FetchStream
    \/ StopStream
    \/ AcceptStream
    \/ SkipStream
    \/ ThresholdFlushStream
    \/ PageBackStream
    \/ FinalFlushStream
    \/ FetchPerDay
    \/ StopPerDay
    \/ SkipPerDay
    \/ AcceptPerDay
    \/ BucketFlushPerDay
    \/ PageBackPerDay
    \/ FetchFollowers
    \/ WriteFollowers
    \/ FetchFails

Spec == Init /\ [][Next]_vars

(* the statements run to completion once started: the interpreter keeps   *)
(* executing the next statement of the running function                   *)
FairSpec == Spec /\ WF_vars(Next)

TypeOK ==
    /\ pc \in {"fetch", "scan", "flushchk", "final", "done", "failed"}
    /\ max_id \in (0..MaxId) \cup {NoCursor}
    /\ idx \in 0..(MaxPage + 1)
    /\ first_write \in BOOLEAN
    /\ warned \in BOOLEAN

(* ======================= properties of the runs ======================== *)
RECURSIVE Flat(_)
(* the rows of the output file, in write order *)
Flat(out) == IF out = <<>> THEN <<>> ELSE Head(out).rows \o Flat(Tail(out))

(* the statuses of f whose timestamp lies in [since, until], in feed order *)
WindowRecs(f) ==
    SelectSeq(f, LAMBDA st : since <= st.created_at /\ st.created_at <= until)

(* ids and timestamps non-increasing along the feed *)
NewestFirst(f) ==
    \A i \in 1..Len(f) : \A j \in 1..Len(f) :
        i < j => f[i].id >= f[j].id /\ f[i].created_at >= f[j].created_at

(* ids strictly decreasing, timestamps non-increasing *)
StrictNewestFirst(f) ==
    \A i \in 1..Len(f) : \A j \in 1..Len(f) :
        i < j => f[i].id > f[j].id /\ f[i].created_at >= f[j].created_at

(* C1 as stated: for every newest-first feed (ids and timestamps           *)
(* non-increasing), a finished streaming run has written exactly the       *)
(* in-window statuses of the feed, in feed order.                          *)
C1_Original ==
    (variant = "stream" /\ pc = "done" /\ NewestFirst(feed))
        => Flat(output) = WindowRecs(feed)

(* C1 amended: for every feed with strictly decreasing ids and             *)
(* non-increasing timestamps, a finished streaming run has written exactly *)
(* the in-window statuses of the feed, in feed order.                      *)
C1_ExactWindow ==
    (variant = "stream" /\ pc = "done" /\ StrictNewestFirst(feed))
        => Flat(output) = WindowRecs(feed)

(* a finished multi-page run over a strictly ordered feed of three that    *)
(* kept two statuses and left one out                                      *)
C1_Witness ==
    /\ variant = "stream" /\ pc = "done" /\ StrictNewestFirst(feed)
    /\ Len(feed) = 3 /\ Len(requests) >= 2
    /\ Len(Flat(output)) = 2

(* C2: every status fetch_fixed_per_day writes has since <= created_at <=  *)
(* until, for every window.                                                *)
C2_PerDayInWindow ==
    variant = "perday" =>
        \A i \in 1..Len(Flat(output)) :
            /\ since <= Flat(output)[i].created_at
            /\ Flat(output)[i].created_at <= until

(* C3: in the streaming run, for any feed, every status in the buffer or   *)
(* in the output has since <= created_at <= until.                         *)
C3_StreamInWindow ==
    variant = "stream" =>
        \A i \in 1..Len(Flat(output) \o buffer) :
            /\ since <= (Flat(output) \o buffer)[i].created_at
            /\ (Flat(output) \o buffer)[i].created_at <= until

(* an out-of-order feed with statuses above and inside the window, one     *)
(* status written and one still buffered                                   *)
C3_Witness ==
    /\ variant = "stream" /\ ~NewestFirst(feed)
    /\ \E i \in 1..Len(feed) : feed[i].created_at > until
    /\ output # <<>> /\ buffer # <<>>

(* number of written statuses whose calendar date is d *)
CountDate(d) ==
    Cardinality({i \in 1..Len(Flat(output)) :
                     Flat(output)[i].created_at \div DayLen = d})

(* the calendar dates of [since, until] *)
WindowDates == {d \in Dates : since \div DayLen <= d /\ d <= until \div DayLen}

(* the run ended on an empty page *)
EmptyPageExit == pc = "done" /\ batch = <<>>

(* the run ended on a status older than since *)
PastExit ==
    pc = "done" /\ idx \in 1..Len(batch) /\ batch[idx].created_at < since

(* C4 as stated: at the end of a per-day run every date of the window has  *)
(* at most per_day written statuses, and exactly per_day unless the run    *)
(* ended on an empty page.                                                 *)
C4_Original ==
    (variant = "perday" /\ pc = "done") =>
        \A d \in WindowDates :
            /\ CountDate(d) <= per_day
            /\ (CountDate(d) = per_day \/ EmptyPageExit)

(* C4 amended: ... exactly per_day unless the run ended on an empty page   *)
(* or on a status older than since before the date reached per_day.        *)
C4_QuotaPerDate ==
    (variant = "perday" /\ pc = "done") =>
        \A d \in WindowDates :
            /\ CountDate(d) <= per_day
            /\ (CountDate(d) = per_day \/ EmptyPageExit \/ PastExit)

(* a run ended by a status older than since, with one date at its quota    *)
(* and another date of the window still without output                     *)
C4_Witness ==
    /\ variant = "perday" /\ PastExit
    /\ \E d \in WindowDates : CountDate(d) = per_day
    /\ \E d \in WindowDates : CountDate(d) = 0

(* C5: after a run that ended on an empty page, every status that was      *)
(* accepted into the buffer or into a day bucket is in the output.         *)
C5_PartialWritten ==
    (variant \in {"stream", "perday"} /\ EmptyPageExit) =>
        \A i \in 1..Len(accepted) :
            \E j \in 1..Len(Flat(output)) : Flat(output)[j] = accepted[i]

(* no two entries of q carry the same id *)
NoDupIds(q) ==
    \A i \in 1..Len(q) : \A j \in 1..Len(q) : i # j => q[i].id # q[j].id

(* ids non-increasing along q *)
IdsSorted(q) ==
    \A i \in 1..Len(q) : \A j \in 1..Len(q) : i < j => q[i].id >= q[j].id

(* every page requested so far came back in non-increasing id order *)
PagesSorted ==
    \A k \in 1..Len(requests) :
        IdsSorted(timeline_public(feed, page_size, requests[k]))

(* C6: in a streaming or per-day run over a feed with distinct ids whose   *)
(* pages come back in non-increasing id order, no status is written twice. *)
C6_NoDuplicates ==
    (variant \in {"stream", "perday"} /\ NoDupIds(feed) /\ PagesSorted)
        => NoDupIds(Flat(output))

(* three distinct statuses fetched over several pages, all written *)
C6_Witness ==
    /\ variant \in {"stream", "perday"} /\ NoDupIds(feed) /\ PagesSorted
    /\ Len(requests) >= 3
    /\ Len(Flat(output)) = 3

(* C7: the streaming buffer never holds more than flush_every statuses;    *)
(* a day's reservoir never holds more than per_day, and holds fewer than   *)
(* per_day as soon as the quota test has run.                              *)
C7_MemoryBound ==
    /\ variant = "stream" => Len(buffer) <= flush_every
    /\ variant = "perday" =>
         \A d \in Dates :
             /\ Len(reservoirs[d]) <= per_day
             /\ (pc # "flushchk" => Len(reservoirs[d]) < per_day)

(* the buffer is full, right after the append and before the flush, in a   *)
(* run that has flushed before                                             *)
C7_Witness ==
    /\ variant = "stream" /\ pc = "flushchk"
    /\ flush_every = 1 /\ Len(buffer) = 1 /\ Len(output) = 2

(* C8: in a streaming or per-day run the first write carries the header    *)
(* and no later write does.                                                *)
C8_HeaderOnce ==
    variant \in {"stream", "perday"} =>
        \A i \in 1..Len(output) : output[i].header = (i = 1)

(* a threshold flush followed by the final flush of a remainder *)
C8_Witness ==
    /\ variant = "stream" /\ EmptyPageExit
    /\ Len(output) = 2 /\ Len(output[1].rows) = 2 /\ Len(output[2].rows) = 1

(* C9: every run ends, and a timeline walk that has ended normally ended   *)
(* on an empty page, on a status older than since, or (per day) with the   *)
(* needed-date set empty.                                                  *)
C9_Terminates ==
    /\ <>(pc \in {"done", "failed"})
    /\ []((variant \in {"stream", "perday"} /\ pc = "done") =>
             \/ batch = <<>>
             \/ (idx \in 1..Len(batch) /\ batch[idx].created_at < since)
             \/ (variant = "perday" /\ needed_dates = {}))

(* a per-day walk that ended because its last needed date was flushed,     *)
(* after more than one fetch                                               *)
C9_Witness ==
    /\ variant = "perday" /\ pc = "done" /\ needed_dates = {}
    /\ idx > Len(batch) /\ Len(requests) >= 2

RECURSIVE PagesConcat(_)
(* the pages returned for the first k requests, one after the other *)
PagesConcat(k) ==
    IF k = 0 THEN <<>>
    ELSE PagesConcat(k - 1) \o account_followers(feed, page_size, requests[k])

(* C10: the follower run writes nothing before it is done, and then has    *)
(* written exactly once: every status of every non-empty page returned     *)
(* before the first empty page, in fetch order.                            *)
C10_FollowersWrite ==
    variant = "followers" =>
        /\ pc # "done" => output = <<>>
        /\ pc = "done" =>
             /\ Len(output) = 1
             /\ output[1].rows = PagesConcat(Len(requests))
             /\ account_followers(feed, page_size, requests[Len(requests)]) = <<>>
             /\ \A k \in 1..(Len(requests) - 1) :
                    account_followers(feed, page_size, requests[k]) # <<>>

(* a follower run of three fetches that wrote three accounts *)
C10_Witness ==
    /\ variant = "followers" /\ pc = "done"
    /\ Len(requests) = 3 /\ Len(output[1].rows) = 3

(* C11: when the very first fetch returns an empty page, the streaming run *)
(* ends with nothing written and nothing buffered; the per-day run has     *)
(* logged the warning, ends with nothing written and its needed-date set   *)
(* is still every date of [since, until].                                  *)
C11_EmptyFirstPage ==
    (variant \in {"stream", "perday"} /\ pc \in {"final", "done"}
       /\ Len(requests) = 1 /\ batch = <<>>) =>
        /\ output = <<>>
        /\ variant = "stream" => buffer = <<>> /\ ~warned
        /\ variant = "perday" =>
             /\ warned /\ pc = "done"
             /\ needed_dates = WindowDates
             /\ \A d \in Dates : reservoirs[d] = <<>>

(* a streaming run that is done after one fetch, which came back empty *)
C11_Witness ==
    /\ variant = "stream" /\ pc = "done"
    /\ requests = <<NoCursor>> /\ batch = <<>> /\ output = <<>>

(* C12: the step that scans a status older than since ends the run: the    *)
(* scan position stays on that status, nothing is accepted, no fetch is    *)
(* issued; the streaming run writes its non-empty buffer once in that step *)
(* and the per-day run writes nothing.  A finished run takes no more step. *)
C12_EarlyStop ==
    [][ /\ pc # "done"
        /\ (variant \in {"stream", "perday"} /\ pc = "scan"
              /\ idx <= Len(batch) /\ batch[idx].created_at < since) =>
             /\ pc' = "done"
             /\ idx' = idx /\ batch' = batch
             /\ accepted' = accepted /\ buffer' = buffer
             /\ reservoirs' = reservoirs
             /\ requests' = requests
             /\ variant = "stream" =>
                  output' = IF buffer = <<>> THEN output
                            ELSE Append(output, [header |-> first_write,
                                                 rows |-> buffer])
             /\ variant = "perday" => output' = output
      ]_vars

(* a streaming run stopped by an old status, its buffer written, while an  *)
(* in-window status further down the feed was never accepted               *)
C12_Witness ==
    /\ variant = "stream" /\ PastExit
    /\ buffer # <<>> /\ output # <<>>
    /\ output[Len(output)].rows = buffer
    /\ Len(accepted) < Len(WindowRecs(feed))

(* number of accepted statuses whose calendar date is d *)
AcceptedCount(d) ==
    Cardinality({i \in 1..Len(accepted) :
                     accepted[i].created_at \div DayLen = d})

(* C13: the step after the append that brings a bucket to per_day writes   *)
(* that bucket, empties it and removes its date from the needed set; no    *)
(* date ever accepts more than per_day statuses; once the needed set is    *)
(* empty it stays empty and no fetch is issued.                            *)
C13_BucketFlush ==
    /\ [](variant = "perday" =>
            \A d \in Dates :
                /\ AcceptedCount(d) <= per_day
                /\ CountDate(d) > 0 => d \notin needed_dates)
    /\ [][ variant = "perday" =>
             /\ (pc = "flushchk"
                   /\ Len(reservoirs[batch[idx].created_at \div DayLen])
                        = per_day) =>
                  /\ output' = Append(output,
                        [header |-> first_write,
                         rows |-> reservoirs[batch[idx].created_at \div DayLen]])
                  /\ reservoirs'[batch[idx].created_at \div DayLen] = <<>>
                  /\ (batch[idx].created_at \div DayLen) \notin needed_dates'
             /\ output' # output =>
                  (pc = "flushchk"
                     /\ Len(reservoirs[batch[idx].created_at \div DayLen])
                          = per_day)
             /\ needed_dates = {} =>
                  (needed_dates' = {} /\ requests' = requests)
         ]_vars

(* two buckets flushed one after the other, a later status of the first    *)
(* date passed over, and the walk ended with the needed set empty          *)
C13_Witness ==
    /\ variant = "perday" /\ pc = "done" /\ ~warned
    /\ needed_dates = {} /\ idx > Len(batch)
    /\ Len(output) = 2 /\ Len(visited) = 3 /\ Len(accepted) = 2

(* C14: a finished streaming run that accepted n statuses with             *)
(* flush_every = k has made n div k writes of exactly k rows, followed by  *)
(* one write of n mod k rows when that is not 0; no write is ever empty.   *)
C14_FlushSizes ==
    variant = "stream" =>
        /\ \A i \in 1..Len(output) : output[i].rows # <<>>
        /\ pc = "done" =>
             /\ Len(output) = (Len(accepted) \div flush_every)
                    + (IF Len(accepted) % flush_every > 0 THEN 1 ELSE 0)
             /\ \A i \in 1..Len(output) :
                    Len(output[i].rows) =
                        IF i <= Len(accepted) \div flush_every
                          THEN flush_every
                          ELSE Len(accepted) % flush_every

(* a run stopped by an old status with one status buffered below the       *)
(* threshold of two: a single write of one row                             *)
C14_Witness ==
    /\ variant = "stream" /\ PastExit
    /\ flush_every = 2 /\ Len(accepted) = 1
    /\ Len(output) = 1 /\ Len(output[1].rows) = 1

(* the first fetch has no cursor; every later fetch asks for the id of the *)
(* last status of the page before it, minus one; the cursors that are set  *)
(* strictly decrease                                                       *)
CursorProtocol ==
    /\ requests # <<>> => requests[1] = NoCursor
    /\ \A k \in 2..Len(requests) :
           /\ timeline_public(feed, page_size, requests[k - 1]) # <<>>
           /\ requests[k] =
                timeline_public(feed, page_size, requests[k - 1])
                    [Len(timeline_public(feed, page_size, requests[k - 1]))].id
                  - 1
    /\ \A k \in 3..Len(requests) : requests[k] < requests[k - 1]

(* C15 as stated: the cursor protocol holds and, for every feed whose      *)
(* pages honour max_id, statuses are visited in non-increasing id order.   *)
C15_Original == CursorProtocol /\ IdsSorted(visited)

(* C15 amended: the cursor protocol holds and, when every page comes back  *)
(* in non-increasing id order, statuses are visited in non-increasing id   *)
(* order.                                                                  *)
C15_CursorProtocol == CursorProtocol /\ (PagesSorted => IdsSorted(visited))

(* three fetches with two set cursors, over sorted pages *)
C15_Witness ==
    /\ Len(requests) = 3 /\ requests[3] < requests[2]
    /\ PagesSorted /\ Len(visited) >= 2

(* C16: the step that scans a status later than until changes neither the  *)
(* buffer nor the output nor the header flag and moves on to the next      *)
(* status; every visited status inside the window has been accepted.       *)
C16_SkipAbove ==
    /\ [](variant = "stream" =>
            accepted = SelectSeq(visited,
                LAMBDA st : since <= st.created_at /\ st.created_at <= until))
    /\ [][ (variant = "stream" /\ pc = "scan" /\ idx <= Len(batch)
              /\ batch[idx].created_at > until) =>
             /\ buffer' = buffer /\ output' = output
             /\ first_write' = first_write /\ accepted' = accepted
             /\ pc' = "scan" /\ idx' = idx + 1
             /\ batch' = batch /\ max_id' = max_id
         ]_vars

(* a status later than until came first, the walk went on to later pages   *)
(* and wrote an in-window status                                           *)
C16_Witness ==
    /\ variant = "stream" /\ pc = "done"
    /\ visited # <<>> /\ visited[1].created_at > until
    /\ Len(requests) >= 3 /\ output # <<>>

(* C17: a failed fetch is taken from a fetch, writes nothing and leaves    *)
(* the buffer, the reservoirs and the follower list as they were; after it *)
(* the run takes no step: no retry, no later fetch, no write.              *)
C17_FetchFailure ==
    [][ /\ pc # "failed"
        /\ pc' = "failed" =>
             /\ pc = "fetch"
             /\ output' = output
             /\ buffer' = buffer
             /\ reservoirs' = reservoirs
             /\ all_followers' = all_followers
             /\ Len(requests') = Len(requests) + 1
      ]_vars

(* a streaming run aborted by its third fetch, with one batch written and  *)
(* a status still in the buffer                                            *)
C17_Witness ==
    /\ variant = "stream" /\ pc = "failed"
    /\ Len(requests) >= 2 /\ output # <<>> /\ buffer # <<>>

(* C18: once the streaming run has scanned a status older than since it   *)
(* has ended normally, with no warning, on that status; the output is the  *)
(* in-window statuses visited up to it, so in-window statuses further down *)
(* the feed are not in the output.                                         *)
C18_SilentLoss ==
    (variant = "stream" /\ visited # <<>>
       /\ visited[Len(visited)].created_at < since) =>
        /\ pc = "done"
        /\ ~warned
        /\ idx \in 1..Len(batch) /\ batch[idx] = visited[Len(visited)]
        /\ Flat(output) = SelectSeq(visited,
               LAMBDA st : since <= st.created_at /\ st.created_at <= until)

(* an out-of-order feed with distinct ids: the run stopped early and wrote *)
(* fewer statuses than the feed has inside the window                      *)
C18_Witness ==
    /\ variant = "stream" /\ PastExit /\ ~warned
    /\ NoDupIds(feed) /\ ~NewestFirst(feed)
    /\ Len(Flat(output)) < Len(WindowRecs(feed))

(* C19: in a per-day run every date has either no written status or       *)
(* exactly per_day; every accepted status is either written or still in    *)
(* its reservoir, and a date with a non-empty reservoir has none written.  *)
C19_AllOrNothing ==
    variant = "perday" =>
        \A d \in Dates :
            /\ CountDate(d) \in {0, per_day}
            /\ reservoirs[d] # <<>> => CountDate(d) = 0
            /\ AcceptedCount(d) = CountDate(d) + Len(reservoirs[d])

(* a finished run with one date written in full and another date whose     *)
(* accepted status stays unwritten                                         *)
C19_Witness ==
    /\ variant = "perday" /\ pc = "done" /\ per_day = 2
    /\ \E d \in Dates : CountDate(d) = 2
    /\ \E d \in Dates : reservoirs[d] # <<>> /\ CountDate(d) = 0

(* C20: the per-day run has logged the warning exactly when it ended on an *)
(* empty page, which is fetched only while dates are still needed; a run   *)
(* ended by a status older than since has logged none.                     *)
C20_WarningIff ==
    variant = "perday" =>
        /\ warned <=> (pc = "done" /\ batch = <<>>)
        /\ warned => needed_dates # {}
        /\ (pc = "done" /\ idx \in 1..Len(batch)
              /\ batch[idx].created_at < since) => ~warned

(* a run ended by a status older than since, with an accepted status of a  *)
(* date below per_day, and no warning                                      *)
C20_Witness ==
    /\ variant = "perday" /\ PastExit /\ ~warned
    /\ \E d \in WindowDates :
           reservoirs[d] # <<>> /\ Len(reservoirs[d]) < per_day

====
